---- MODULE Spec2Model ----
(***************************************************************************)
(* PawPal+ scheduling engine (src/pawpal_system.py): the Scheduler's task  *)
(* list, pet and owner, and its operations add_task, set_pet, set_owner,   *)
(* mark_task_complete, detect_scheduling_conflicts and generate_plan.      *)
(*                                                                         *)
(* Times are minutes since midnight, as in the source.  Task objects live  *)
(* in a heap `objs` (a sequence; the index is the object's identity) and   *)
(* self.tasks is a sequence of heap indices, so that object identity       *)
(* (`task not in self.tasks`, `flexible_tasks.remove(task)`) and in-place  *)
(* mutation (`task.completed = True`) are what they are in Python.         *)
(***************************************************************************)
EXTENDS Integers, Sequences, FiniteSets, TLC

\* ------------------------------------------------------------------ bounds

\* The heap holds at most MaxObjs Task objects (caller-made and successors).
MaxObjs == 3

\* ------------------------------------------------- values of the source

\* Python's None where the value is otherwise an int (start_time).
None == -1000
\* Python's None where the value is otherwise a str (depends_on, frequency,
\* self.pet's species when self.pet is None).
NoneStr == "None"
\* self.owner is None.
NoOwner == <<>>
\* PlanItem.scheduled_time of an item that was not placed.
Unscheduled == -1
\* Gap threshold of _fill_gaps and probe step of _find_best_time.
MinGap == 15
ProbeStep == 15
ProbeLimit == 120
\* _get_dynamic_priority: the boost applies to deadlines closer than this.
UrgencyHorizon == 120
\* Task.validate: the day has 1440 minutes.
DayMinutes == 1440
\* generate_plan: the dog-walk note applies before 10:00.
MorningEnd == 600

\* not x, for an Optional[str]
Falsy(s) == s = NoneStr \/ s = ""

\* ---------------------------------------------------------------- Task

\* The start_time argument of Task(...): None, an int, an "HH:MM" string
\* (given by its two digit groups) or a string that is not of that shape.
StartNone == [kind |-> "none", hours |-> 0, minutes |-> 0]
StartInt(m) == [kind |-> "int", hours |-> 0, minutes |-> m]
StartStr(h, m) == [kind |-> "str", hours |-> h, minutes |-> m]
StartBad == [kind |-> "bad", hours |-> 0, minutes |-> 0]

\* _time_to_minutes
TimeToMinutes(value) ==
    CASE value.kind = "none" -> None
      [] value.kind = "int" -> value.minutes
      [] value.kind = "str" -> value.hours * 60 + value.minutes
      [] OTHER -> None

\* Task.__init__ (completed = False by default, notes = "")
Task(title, task_type, duration_minutes, priority, time_window, start_time, depends_on, is_flexible, frequency) ==
    [title |-> title, task_type |-> task_type,
     duration_minutes |-> duration_minutes, priority |-> priority,
     time_window |-> time_window, notes |-> "",
     start_time |-> TimeToMinutes(start_time), depends_on |-> depends_on,
     is_flexible |-> is_flexible, completed |-> FALSE,
     frequency |-> frequency]

\* Validate with a fault: a start_time of 1440 (24:00) is accepted.
ValidateStartInclusive(t) ==
    IF t.title = "" THEN FALSE
    ELSE IF ~(1 <= t.duration_minutes /\ t.duration_minutes <= DayMinutes) THEN FALSE
    ELSE IF t.priority \notin {"low", "medium", "high"} THEN FALSE
    ELSE IF t.time_window[1] >= t.time_window[2] THEN FALSE
    ELSE IF t.start_time = None THEN TRUE
    ELSE 0 <= t.start_time /\ t.start_time <= DayMinutes

\* Task.validate
Validate(t) ==
    IF t.title = "" THEN FALSE
    ELSE IF ~(1 <= t.duration_minutes /\ t.duration_minutes <= DayMinutes) THEN FALSE
    ELSE IF t.priority \notin {"low", "medium", "high"} THEN FALSE
    ELSE IF t.time_window[1] >= t.time_window[2] THEN FALSE
    ELSE IF t.start_time = None THEN TRUE
    ELSE 0 <= t.start_time /\ t.start_time < DayMinutes

\* Task.create_next_occurrence returns a Task (rather than None) for these.
Recurs(t) == ~(Falsy(t.frequency) \/ t.frequency \notin {"daily", "weekly"})

\* CreateNextOccurrence with a fault: the copy keeps the completed flag.
CreateNextOccurrenceKeepsCompleted(t) ==
    [t EXCEPT !.start_time = IF t.start_time = None THEN None
                             ELSE TimeToMinutes(StartInt(t.start_time))]

\* Task.create_next_occurrence, for a task that recurs: a new Task built
\* from the fields of t, its start_time converted again, completed = False.
CreateNextOccurrence(t) ==
    [t EXCEPT !.start_time = IF t.start_time = None THEN None
                             ELSE TimeToMinutes(StartInt(t.start_time)),
              !.completed = FALSE]

\* ------------------------------------------------------------- inputs

\* The tasks a caller constructs.  A and B are the rigid pair of the spec's
\* dependency example; C is a rigid task whose window opens late, which
\* leaves an idle gap after A; F and G are flexible, F short enough for
\* that gap and G too long for it; E fails validate() (a duration of 0).
\* Their start times (A 08:30, B 08:40, C 08:55, G 10:00) make A, B and C
\* conflict pairwise and G conflict with none.
TaskInputs ==
    { Task("A", "walk", 30, "high", <<480, 600>>, StartStr(8, 30), NoneStr, FALSE, "daily"),
      Task("B", "feed", 30, "high", <<480, 600>>, StartInt(520), "A", FALSE, NoneStr),
      Task("C", "play", 20, "medium", <<540, 700>>, StartInt(535), NoneStr, FALSE, NoneStr),
      Task("F", "play", 15, "low", <<0, 1440>>, StartBad, "C", TRUE, "weekly"),
      Task("G", "other", 30, "medium", <<0, 1440>>, StartStr(10, 0), NoneStr, TRUE, NoneStr),
      Task("E", "walk", 0, "high", <<480, 600>>, StartInt(500), NoneStr, TRUE, "daily") }

\* PetOwner.availability values (480..1320 is what the app and demo use).
Availabilities == { <<480, 1320>>, <<480, 560>> }
\* Pet.species values
Species == { "dog" }
\* Scheduler(break_time_minutes): the break is a duration (5 by default,
\* which is what the app and the demo use); negative values are not drawn.
BreakTimes == { 0, 5 }

VARIABLES
    objs,                 \* heap of Task objects
    tasks,                \* self.tasks: heap indices, in list order
    pet,                  \* self.pet's species, NoneStr when self.pet is None
    owner,                \* self.owner's availability, NoOwner when None
    break_time_minutes,   \* self.break_time_minutes
    op,                   \* the last call made; "generate_plan:loop",
                          \* ":gaps" and ":fill" while generate_plan is in
                          \* its loop over the rigid tasks and in the two
                          \* loops of _fill_gaps
    arg,                  \* heap index of the Task passed to it (0: none);
                          \* inside generate_plan: the iterations done of
                          \* the loop it is in;
                          \* _get_dynamic_priority: its current_time;
                          \* _find_best_time: <<earliest_start, latest_end,
                          \* occupied_slots>>
    ret,                  \* add_task, validate: the boolean as 0 or 1;
                          \* mark_task_complete: heap index of the returned
                          \* Task, 0 for None; _get_dynamic_priority: the
                          \* score in units of 1/120; _find_best_time: the
                          \* start it returns, None for None
    plan,                 \* what the last generate_plan returned; inside
                          \* generate_plan: the items made so far
    conflicts,            \* what the last detect_scheduling_conflicts returned
    calls,                \* generate_plan calls made in a row (up to 2)
    prev_plan             \* what the generate_plan call before it returned

vars == <<objs, tasks, pet, owner, break_time_minutes, op, arg, ret, plan,
          conflicts, calls, prev_plan>>

Oids == 1..Len(objs)
\* the Task objects of self.tasks, in list order
TaskList == [i \in 1..Len(tasks) |-> objs[tasks[i]]]

\* ------------------------------------------------------------ helpers

Min(a, b) == IF a <= b THEN a ELSE b
Max(a, b) == IF a >= b THEN a ELSE b
MinOf(S) == CHOOSE x \in S : \A y \in S : x <= y

\* Python's order on tuples of ints of the same length
TupleLess(a, b) ==
    \E i \in 1..Len(a) : a[i] < b[i] /\ \A j \in 1..(i - 1) : a[j] = b[j]

\* sorted(s, key=...), keys[i] being the key of s[i]: ascending and stable
\* (elements with equal keys keep their order).
StableSort(s, keys) ==
    LET n == Len(s)
        rank(i) == 1 + Cardinality({ j \in 1..n :
                        \/ TupleLess(keys[j], keys[i])
                        \/ (keys[j] = keys[i] /\ j < i) })
    IN [k \in 1..n |-> s[CHOOSE i \in 1..n : rank(i) = k]]

\* sorted(s, key=..., reverse=True): descending, and still stable
StableSortReverse(s, keys) ==
    StableSort(s, [i \in 1..Len(s) |-> [c \in 1..Len(keys[i]) |-> 0 - keys[i][c]]])

\* list.remove(x): the first element equal to x goes
RECURSIVE RemoveFirst(_, _)
RemoveFirst(s, x) ==
    IF s = <<>> THEN <<>>
    ELSE IF Head(s) = x THEN Tail(s)
    ELSE <<Head(s)>> \o RemoveFirst(Tail(s), x)

\* f"{m // 60:02d}:{m % 60:02d}": the two numbers the text shows
HHMM(m) == <<m \div 60, m % 60>>

\* ------------------------------------------------- generate_plan's parts

\* GetDynamicPriority with a fault: the boost is also given at the deadline
\* itself (0 <= time_until_deadline).
GetDynamicPriorityAtDeadline(task, current_time) ==
    LET priority_value == CASE task.priority = "high" -> 3 * UrgencyHorizon
                            [] task.priority = "medium" -> 2 * UrgencyHorizon
                            [] OTHER -> 1 * UrgencyHorizon
        time_until_deadline == task.time_window[2] - current_time
    IN IF 0 <= time_until_deadline /\ time_until_deadline < UrgencyHorizon
       THEN priority_value + (UrgencyHorizon - time_until_deadline)
       ELSE priority_value

\* GetDynamicPriority with a fault: `0 <` is missing from the test, so a
\* deadline that has passed is boosted too, by more than 1.
GetDynamicPriorityPastDeadline(task, current_time) ==
    LET priority_value == CASE task.priority = "high" -> 3 * UrgencyHorizon
                            [] task.priority = "medium" -> 2 * UrgencyHorizon
                            [] OTHER -> 1 * UrgencyHorizon
        time_until_deadline == task.time_window[2] - current_time
    IN IF time_until_deadline < UrgencyHorizon
       THEN priority_value + (UrgencyHorizon - time_until_deadline)
       ELSE priority_value

\* _get_dynamic_priority, in units of 1/120: the base (3.0, 2.0, 1.0) plus,
\* for a deadline d minutes away with 0 < d < 120, the boost 1.0 - d/120.0.
GetDynamicPriority(task, current_time) ==
    LET priority_value == CASE task.priority = "high" -> 3 * UrgencyHorizon
                            [] task.priority = "medium" -> 2 * UrgencyHorizon
                            [] OTHER -> 1 * UrgencyHorizon
        time_until_deadline == task.time_window[2] - current_time
    IN IF 0 < time_until_deadline /\ time_until_deadline < UrgencyHorizon
       THEN priority_value + (UrgencyHorizon - time_until_deadline)
       ELSE priority_value

\* RankKey with a fault: the duration comes first in the key.
RankKeyDurationFirst(task, current_time) ==
    <<task.duration_minutes, GetDynamicPriority(task, current_time)>>

\* The sort key of generate_plan: (priority score, duration)
RankKey(task, current_time) ==
    <<GetDynamicPriority(task, current_time), task.duration_minutes>>

\* CheckDependencies with a fault: depends_on is not looked at.
CheckDependenciesIgnored(h, task, scheduled_tasks) == TRUE

\* CheckDependencies with a fault: the title is looked up among all the
\* tasks there are, not among the scheduled ones.
CheckDependenciesAnyTask(h, task, scheduled_tasks) ==
    IF Falsy(task.depends_on) THEN TRUE
    ELSE \E o \in DOMAIN h : h[o].title = task.depends_on

\* _check_dependencies; scheduled_tasks is a sequence of heap indices
CheckDependencies(h, task, scheduled_tasks) ==
    IF Falsy(task.depends_on) THEN TRUE
    ELSE \E k \in 1..Len(scheduled_tasks) : h[scheduled_tasks[k]].title = task.depends_on

\* _try_schedule_at; a slot is <<slot_start, slot_end>>
TryScheduleAt(task, start_time, occupied_slots) ==
    LET end_time == start_time + task.duration_minutes
    IN \A k \in 1..Len(occupied_slots) :
          ~(start_time < occupied_slots[k][2] /\ end_time > occupied_slots[k][1])

\* _find_best_time; None when no probe is free.  The offsets are those of
\* range(15, min(120, latest_end - earliest_start), 15).
FindBestTime(task, earliest_start, latest_end, occupied_slots) ==
    IF TryScheduleAt(task, earliest_start, occupied_slots) THEN earliest_start
    ELSE LET stop == Min(ProbeLimit, latest_end - earliest_start)
             offsets == { o \in ProbeStep..(stop - 1) : o % ProbeStep = 0 }
             free == { o \in offsets :
                        /\ earliest_start + o + task.duration_minutes <= latest_end
                        /\ TryScheduleAt(task, earliest_start + o, occupied_slots) }
         IN IF free = {} THEN None ELSE earliest_start + MinOf(free)

\* The reason strings, by their parts: the fixed text, and the values
\* formatted into it.
Reason(text, depends_on, time, priority, how, note, minutes) ==
    [text |-> text, depends_on |-> depends_on, time |-> time,
     priority |-> priority, how |-> how, note |-> note, minutes |-> minutes]
ReasonDependency(task) ==
    Reason("Waiting for dependency", task.depends_on, <<0, 0>>, "", "", FALSE, 0)
ReasonWindow ==
    Reason("Task time window doesn't overlap with owner availability", "", <<0, 0>>, "", "", FALSE, 0)
ReasonScheduled(task, best_start, earliest_start, species) ==
    Reason("Scheduled at", "", HHMM(best_start), task.priority,
           IF best_start > earliest_start THEN "adjusted to avoid conflicts"
           ELSE "optimal time",
           species = "dog" /\ task.task_type = "walk" /\ best_start < MorningEnd, 0)
\* "No available {duration/60:.1f}h slot ...": minutes is the duration the
\* hours are formatted from.
ReasonNoSlot(task) ==
    Reason("No available slot in preferred time window", "", <<0, 0>>, "", "", FALSE, task.duration_minutes)
ReasonGap(gap_duration) ==
    Reason("Gap-filled", "", <<0, 0>>, "", "", FALSE, gap_duration)

\* PlanItem(task, scheduled_time, duration_minutes, reason); task is the
\* heap index of the Task the item refers to.
PlanItem(task, scheduled_time, duration_minutes, reason) ==
    [task |-> task, scheduled_time |-> scheduled_time,
     duration_minutes |-> duration_minutes, reason |-> reason]

\* EarliestStart with a fault: the cursor is left out of the maximum.
EarliestStartIgnoringCursor(current_time, task, availability) ==
    Max(task.time_window[1], availability[1])

\* EarliestStart with a fault: a task that has a start_time is not placed
\* before it.
EarliestStartAtStartTime(current_time, task, availability) ==
    Max(Max(Max(current_time, task.time_window[1]), availability[1]),
        IF task.start_time = None THEN 0 ELSE task.start_time)

\* earliest_start and latest_end of generate_plan
EarliestStart(current_time, task, availability) ==
    Max(Max(current_time, task.time_window[1]), availability[1])

\* LatestEnd with a fault: the end of the owner's availability is ignored.
LatestEndOfWindow(task, availability) == task.time_window[2]

\* LatestEnd with a fault: the end of the task's window is ignored.
LatestEndOfAvailability(task, availability) == availability[2]

LatestEnd(task, availability) == Min(availability[2], task.time_window[2])

\* The locals of generate_plan before its loop over the rigid tasks.
LoopStart(availability) ==
    [plan |-> <<>>, scheduled_tasks |-> <<>>, occupied_slots |-> <<>>,
     current_time |-> availability[1]]

\* One iteration of generate_plan's loop, for the rigid task at heap index
\* o: the locals st after it.
RigidStep(h, st, o, availability, break_time, species) ==
    LET task == h[o]
        earliest_start == EarliestStart(st.current_time, task, availability)
        latest_end == LatestEnd(task, availability)
        best_start == FindBestTime(task, earliest_start, latest_end, st.occupied_slots)
        end_time == best_start + task.duration_minutes
    IN IF ~CheckDependencies(h, task, st.scheduled_tasks)
       THEN [st EXCEPT !.plan = Append(@, PlanItem(o, Unscheduled, task.duration_minutes,
                                                    ReasonDependency(task)))]
       ELSE IF earliest_start + task.duration_minutes > latest_end
       THEN [st EXCEPT !.plan = Append(@, PlanItem(o, Unscheduled, task.duration_minutes,
                                                    ReasonWindow))]
       ELSE IF best_start # None
       THEN [plan |-> Append(st.plan,
                        PlanItem(o, best_start, task.duration_minutes,
                                 ReasonScheduled(task, best_start, earliest_start, species))),
             scheduled_tasks |-> Append(st.scheduled_tasks, o),
             occupied_slots |-> Append(st.occupied_slots,
                                       <<best_start, end_time + break_time>>),
             current_time |-> end_time + break_time]
       ELSE [st EXCEPT !.plan = Append(@, PlanItem(o, Unscheduled, task.duration_minutes,
                                                    ReasonNoSlot(task)))]

\* The locals of generate_plan after the first k iterations of its loop
\* over sorted_tasks.
RECURSIVE RigidLoop(_, _, _, _, _, _)
RigidLoop(h, sorted_tasks, availability, break_time, species, k) ==
    IF k = 0 THEN LoopStart(availability)
    ELSE RigidStep(h, RigidLoop(h, sorted_tasks, availability, break_time, species, k - 1),
                   sorted_tasks[k], availability, break_time, species)

\* ByScheduledTime with a fault: the items are left in the order given.
ByScheduledTimeUnsorted(items) == items

\* sort(key=lambda x: x.scheduled_time) of plan items
ByScheduledTime(items) ==
    StableSort(items, [i \in 1..Len(items) |-> <<items[i].scheduled_time>>])

\* GapScan with a fault: a gap of exactly 15 minutes is not kept.
RECURSIVE GapScanStrict(_, _, _, _)
GapScanStrict(scheduled_items, availability, break_time, k) ==
    IF k = 0 THEN [gaps |-> <<>>, current |-> availability[1]]
    ELSE LET g == GapScanStrict(scheduled_items, availability, break_time, k - 1)
             item == scheduled_items[k]
         IN [gaps |-> IF item.scheduled_time > g.current
                         /\ item.scheduled_time - g.current > MinGap
                      THEN Append(g.gaps, <<g.current, item.scheduled_time>>)
                      ELSE g.gaps,
             current |-> Max(g.current,
                             item.scheduled_time + item.duration_minutes + break_time)]

\* The first loop of _fill_gaps over the first k of scheduled_items: the
\* gaps found so far and the running `current`.
RECURSIVE GapScan(_, _, _, _)
GapScan(scheduled_items, availability, break_time, k) ==
    IF k = 0 THEN [gaps |-> <<>>, current |-> availability[1]]
    ELSE LET g == GapScan(scheduled_items, availability, break_time, k - 1)
             item == scheduled_items[k]
         IN [gaps |-> IF item.scheduled_time > g.current
                         /\ item.scheduled_time - g.current >= MinGap
                      THEN Append(g.gaps, <<g.current, item.scheduled_time>>)
                      ELSE g.gaps,
             current |-> Max(g.current,
                             item.scheduled_time + item.duration_minutes + break_time)]

\* Gaps with a fault: the closing gap is left out.
GapsWithoutClosing(scheduled_items, availability, break_time) ==
    GapScan(scheduled_items, availability, break_time, Len(scheduled_items)).gaps

\* The gaps list of _fill_gaps, the closing gap up to the end of the
\* availability included.
Gaps(scheduled_items, availability, break_time) ==
    LET g == GapScan(scheduled_items, availability, break_time, Len(scheduled_items))
    IN IF g.current < availability[2] /\ availability[2] - g.current >= MinGap
       THEN Append(g.gaps, <<g.current, availability[2]>>)
       ELSE g.gaps

\* FitsGap with a fault: the task's window is not looked at.
FitsGapIgnoringWindow(task, gap_start, gap_end) ==
    task.duration_minutes <= gap_end - gap_start

\* FitsGap with a fault: the task's duration is not compared with the gap.
FitsGapAnyDuration(task, gap_start, gap_end) ==
    /\ task.time_window[1] <= gap_start
    /\ gap_start + task.duration_minutes <= task.time_window[2]

\* FitsGap with a fault: a task that has a dependency is not placed.
FitsGapWithoutDependency(task, gap_start, gap_end) ==
    /\ Falsy(task.depends_on)
    /\ task.duration_minutes <= gap_end - gap_start
    /\ task.time_window[1] <= gap_start
    /\ gap_start + task.duration_minutes <= task.time_window[2]

\* The test of _fill_gaps for placing a task at the start of a gap.
FitsGap(task, gap_start, gap_end) ==
    /\ task.duration_minutes <= gap_end - gap_start
    /\ task.time_window[1] <= gap_start
    /\ gap_start + task.duration_minutes <= task.time_window[2]

\* GapFill with a fault: the `break` after a placement is missing, so
\* every flexible task that fits a gap is placed at its start.
RECURSIVE GapFillWithoutBreak(_, _, _, _)
GapFillWithoutBreak(h, gaps, flexible_tasks, k) ==
    IF k = 0 THEN [additional_items |-> <<>>, flexible_tasks |-> flexible_tasks]
    ELSE LET f == GapFillWithoutBreak(h, gaps, flexible_tasks, k - 1)
             gap_start == gaps[k][1]
             gap_end == gaps[k][2]
             placed == SelectSeq(f.flexible_tasks,
                                 LAMBDA o : FitsGap(h[o], gap_start, gap_end))
         IN [additional_items |->
                f.additional_items \o
                [i \in 1..Len(placed) |->
                    PlanItem(placed[i], gap_start, h[placed[i]].duration_minutes,
                             ReasonGap(gap_end - gap_start))],
             flexible_tasks |-> SelectSeq(f.flexible_tasks,
                                          LAMBDA o : ~FitsGap(h[o], gap_start, gap_end))]

\* The second loop of _fill_gaps over the first k gaps: additional_items
\* and the flexible tasks still in the list.
RECURSIVE GapFill(_, _, _, _)
GapFill(h, gaps, flexible_tasks, k) ==
    IF k = 0 THEN [additional_items |-> <<>>, flexible_tasks |-> flexible_tasks]
    ELSE LET f == GapFill(h, gaps, flexible_tasks, k - 1)
             gap_start == gaps[k][1]
             gap_end == gaps[k][2]
             fits == { i \in 1..Len(f.flexible_tasks) :
                          FitsGap(h[f.flexible_tasks[i]], gap_start, gap_end) }
         IN IF fits = {} THEN f
            ELSE LET o == f.flexible_tasks[MinOf(fits)]
                 IN [additional_items |->
                        Append(f.additional_items,
                               PlanItem(o, gap_start, h[o].duration_minutes,
                                        ReasonGap(gap_end - gap_start))),
                     flexible_tasks |-> RemoveFirst(f.flexible_tasks, o)]

\* _fill_gaps
FillGaps(h, plan_, flexible_tasks, availability, break_time) ==
    IF flexible_tasks = <<>> THEN plan_
    ELSE LET scheduled_items ==
                 ByScheduledTime(SelectSeq(plan_, LAMBDA item : item.scheduled_time >= 0))
             gaps == Gaps(scheduled_items, availability, break_time)
         IN plan_ \o GapFill(h, gaps, flexible_tasks, Len(gaps)).additional_items

\* SortedRigid with a fault: reverse=True is missing, so the rigid tasks
\* are tried from the lowest rank up.
SortedRigidAscending(h, list, availability) ==
    LET rigid_tasks == SelectSeq(list, LAMBDA o : ~h[o].is_flexible)
    IN StableSort(rigid_tasks,
                  [i \in 1..Len(rigid_tasks) |->
                      RankKey(h[rigid_tasks[i]], availability[1])])

\* sorted_tasks of generate_plan: the rigid tasks by rank
SortedRigid(h, list, availability) ==
    LET rigid_tasks == SelectSeq(list, LAMBDA o : ~h[o].is_flexible)
    IN StableSortReverse(rigid_tasks,
                         [i \in 1..Len(rigid_tasks) |->
                             RankKey(h[rigid_tasks[i]], availability[1])])

\* generate_plan past its two early returns: the split into rigid and
\* flexible tasks, the loop, _fill_gaps and the final ordering.
BuildPlan(h, list, species, availability, break_time) ==
    LET flexible_tasks == SelectSeq(list, LAMBDA o : h[o].is_flexible)
        sorted_tasks == SortedRigid(h, list, availability)
        rigid == RigidLoop(h, sorted_tasks, availability, break_time, species,
                           Len(sorted_tasks))
        filled == FillGaps(h, rigid.plan, flexible_tasks, availability, break_time)
        scheduled == ByScheduledTime(SelectSeq(filled, LAMBDA p : p.scheduled_time >= 0))
        unscheduled == SelectSeq(filled, LAMBDA p : p.scheduled_time < 0)
    IN scheduled \o unscheduled

\* GeneratePlan with a fault: only the owner is tested by the first early
\* return (`if not self.owner`).
GeneratePlanWithoutPet(h, list, species, availability, break_time) ==
    IF availability = NoOwner THEN <<>>
    ELSE IF list = <<>> THEN <<>>
    ELSE BuildPlan(h, list, species, availability, break_time)

\* generate_plan, on a scheduler with the heap h, self.tasks = list, the
\* pet's species, the owner's availability and break_time_minutes
GeneratePlan(h, list, species, availability, break_time) ==
    IF species = NoneStr \/ availability = NoOwner THEN <<>>
    ELSE IF list = <<>> THEN <<>>
    ELSE BuildPlan(h, list, species, availability, break_time)

\* ------------------------------------------- detect_scheduling_conflicts

\* _tasks_overlap: the overlap in minutes, None when there is none
TasksOverlap(task1, task2) ==
    IF task1.start_time = None \/ task2.start_time = None THEN None
    ELSE LET task1_end == task1.start_time + task1.duration_minutes
             task2_end == task2.start_time + task2.duration_minutes
             overlap_start == Max(task1.start_time, task2.start_time)
             overlap_end == Min(task1_end, task2_end)
             overlap_duration == overlap_end - overlap_start
         IN IF overlap_duration > 0 THEN overlap_duration ELSE None

\* EarlyExit with a fault: the end is computed from task2's duration.
EarlyExitOtherDuration(task1, task2) ==
    task2.start_time >= task1.start_time + task2.duration_minutes

\* The early exit of the inner loop of detect_scheduling_conflicts.
EarlyExit(task1, task2) ==
    task2.start_time >= task1.start_time + task1.duration_minutes

\* The warning text, by the values formatted into it; task1 and task2 are
\* the heap indices of the two Task objects the text was built from.
Warning(h, o1, o2, overlap_minutes, species) ==
    [task1 |-> o1, task2 |-> o2, pet_info |-> species # NoneStr,
     title1 |-> h[o1].title, time_str1 |-> HHMM(h[o1].start_time),
     duration1 |-> h[o1].duration_minutes,
     title2 |-> h[o2].title, time_str2 |-> HHMM(h[o2].start_time),
     duration2 |-> h[o2].duration_minutes,
     overlap_minutes |-> overlap_minutes]

\* SortedByStart with a fault: the tasks are filtered but not sorted.
SortedByStartUnsorted(h, list) ==
    SelectSeq(list, LAMBDA o : h[o].start_time # None)

\* sorted_tasks of detect_scheduling_conflicts
SortedByStart(h, list) ==
    LET timed == SelectSeq(list, LAMBDA o : h[o].start_time # None)
    IN StableSort(timed, [i \in 1..Len(timed) |-> <<h[timed[i]].start_time>>])

\* The inner loop for task1 = sorted_tasks[i], from task2 = sorted_tasks[j]
\* on: the warnings it appends.
RECURSIVE InnerScan(_, _, _, _, _)
InnerScan(h, sorted_tasks, i, j, species) ==
    IF j > Len(sorted_tasks) THEN <<>>
    ELSE LET o1 == sorted_tasks[i]
             o2 == sorted_tasks[j]
             overlap_minutes == TasksOverlap(h[o1], h[o2])
         IN IF EarlyExit(h[o1], h[o2]) THEN <<>>
            ELSE (IF overlap_minutes # None /\ overlap_minutes # 0
                  THEN <<Warning(h, o1, o2, overlap_minutes, species)>>
                  ELSE <<>>)
                 \o InnerScan(h, sorted_tasks, i, j + 1, species)

\* The outer loop from task1 = sorted_tasks[i] on.
RECURSIVE OuterScan(_, _, _, _)
OuterScan(h, sorted_tasks, i, species) ==
    IF i > Len(sorted_tasks) THEN <<>>
    ELSE InnerScan(h, sorted_tasks, i, i + 1, species)
         \o OuterScan(h, sorted_tasks, i + 1, species)

\* detect_scheduling_conflicts
DetectSchedulingConflicts(h, list, species) ==
    OuterScan(h, SortedByStart(h, list), 1, species)

\* ---------------------------------------------------------- operations

Init ==
    /\ objs = <<>>
    /\ tasks = <<>>
    /\ pet = NoneStr
    /\ owner = NoOwner
    /\ break_time_minutes \in BreakTimes
    /\ op = "Scheduler"
    /\ arg = 0
    /\ ret = 0
    /\ plan = <<>>
    /\ conflicts = <<>>
    /\ calls = 0
    /\ prev_plan = <<>>

\* What a call that is not generate_plan leaves of the last plans.
NoPlan == plan' = <<>> /\ calls' = 0 /\ prev_plan' = <<>>

\* AddTaskList with a fault: the task is appended without validation.
AddTaskListUnchecked(h, list, o) == Append(list, o)

\* AddTaskList with a fault: a valid task is put at the front of the list.
AddTaskListFront(h, list, o) == IF ~Validate(h[o]) THEN list ELSE <<o>> \o list

\* Scheduler.add_task's effect on self.tasks for the Task at heap index o
\* of the heap h.
AddTaskList(h, list, o) == IF ~Validate(h[o]) THEN list ELSE Append(list, o)

\* The caller constructs a Task from the input t and passes it to add_task.
AddTask(t) ==
    /\ Len(objs) < MaxObjs
    /\ objs' = Append(objs, t)
    /\ arg' = Len(objs) + 1
    /\ tasks' = AddTaskList(objs', tasks, arg')
    /\ ret' = IF ~Validate(t) THEN 0 ELSE 1
    /\ op' = "add_task"
    /\ conflicts' = <<>>
    /\ NoPlan
    /\ UNCHANGED <<pet, owner, break_time_minutes>>

\* set_pet
SetPet(species) ==
    /\ pet' = species
    /\ op' = "set_pet"
    /\ arg' = 0 /\ ret' = 0 /\ conflicts' = <<>>
    /\ NoPlan
    /\ UNCHANGED <<objs, tasks, owner, break_time_minutes>>

\* set_owner
SetOwner(availability) ==
    /\ owner' = availability
    /\ op' = "set_owner"
    /\ arg' = 0 /\ ret' = 0 /\ conflicts' = <<>>
    /\ NoPlan
    /\ UNCHANGED <<objs, tasks, pet, break_time_minutes>>

\* task in self.tasks
Held(list, o) == \E i \in 1..Len(list) : list[i] = o

\* mark_task_complete on the Task at heap index o
MarkTaskComplete(o) ==
    /\ op' = "mark_task_complete"
    /\ arg' = o
    /\ conflicts' = <<>>
    /\ NoPlan
    /\ UNCHANGED <<pet, owner, break_time_minutes>>
    /\ IF ~Held(tasks, o)
       THEN ret' = 0 /\ UNCHANGED <<objs, tasks>>
       ELSE LET done == [objs EXCEPT ![o].completed = TRUE]
            IN IF done[o].frequency \in {"daily", "weekly"} /\ Recurs(done[o])
               THEN /\ Len(objs) < MaxObjs
                    /\ objs' = Append(done, CreateNextOccurrence(done[o]))
                    /\ tasks' = AddTaskList(objs', tasks, Len(objs) + 1)
                    /\ ret' = Len(objs) + 1
               ELSE /\ objs' = done
                    /\ ret' = 0
                    /\ UNCHANGED tasks

\* DetectConflicts with a fault: self.tasks is sorted in place
\* (self.tasks.sort(key=lambda t: t.start_time or 0)).
DetectConflictsSortingInPlace ==
    /\ conflicts' = DetectSchedulingConflicts(objs, tasks, pet)
    /\ op' = "detect_scheduling_conflicts"
    /\ arg' = 0 /\ ret' = 0
    /\ NoPlan
    /\ tasks' = StableSort(tasks, [i \in 1..Len(tasks) |->
                     <<IF objs[tasks[i]].start_time = None THEN 0
                       ELSE objs[tasks[i]].start_time>>])
    /\ UNCHANGED <<objs, pet, owner, break_time_minutes>>

\* detect_scheduling_conflicts
DetectConflicts ==
    /\ conflicts' = DetectSchedulingConflicts(objs, tasks, pet)
    /\ op' = "detect_scheduling_conflicts"
    /\ arg' = 0 /\ ret' = 0
    /\ NoPlan
    /\ UNCHANGED <<objs, tasks, pet, owner, break_time_minutes>>

\* Plan with a fault: _fill_gaps removes the tasks it places from
\* self.tasks itself instead of from a copy.
PlanConsuming ==
    /\ plan' = GeneratePlan(objs, tasks, pet, owner, break_time_minutes)
    /\ prev_plan' = IF op = "generate_plan" THEN plan ELSE <<>>
    /\ calls' = IF op = "generate_plan" THEN 2 ELSE 1
    /\ op' = "generate_plan"
    /\ arg' = 0 /\ ret' = 0 /\ conflicts' = <<>>
    /\ tasks' = SelectSeq(tasks, LAMBDA o :
                    ~\E i \in 1..Len(plan') :
                        plan'[i].task = o /\ plan'[i].reason.text = "Gap-filled")
    /\ UNCHANGED <<objs, pet, owner, break_time_minutes>>

\* generate_plan
Plan ==
    /\ plan' = GeneratePlan(objs, tasks, pet, owner, break_time_minutes)
    /\ prev_plan' = IF op = "generate_plan" THEN plan ELSE <<>>
    /\ calls' = IF op = "generate_plan" THEN 2 ELSE 1
    /\ op' = "generate_plan"
    /\ arg' = 0 /\ ret' = 0 /\ conflicts' = <<>>
    /\ UNCHANGED <<objs, tasks, pet, owner, break_time_minutes>>

Next ==
    \/ \E t \in TaskInputs : AddTask(t)
    \/ \E species \in Species : SetPet(species)
    \/ \E availability \in Availabilities : SetOwner(availability)
    \/ \E o \in Oids : MarkTaskComplete(o)
    \/ DetectConflicts
    \/ Plan

Spec == Init /\ [][Next]_vars

\* --------------------------------- planning, on the examples' inputs

\* Tasks for the planner's examples.  R1 is placed at 480..510 and R2's
\* window opens at 530, which leaves 20 idle minutes between them; L1 and
\* L2 are the same pair 20 minutes later, which also leaves 20 idle
\* minutes before L1; FX is a flexible task of 15 minutes, FW one whose
\* window opens at 520, after the first gaps have begun.  X and Y depend
\* on each other, Y as a rigid and as a flexible task.  P's deadline is
\* 110 minutes after 480, so its score is boosted at the availability
\* start; H is a longer high task with no boost at any time, which ranks
\* before R1 at 480 and after it once the cursor has moved.
CaseInputs ==
    { Task("R1", "walk", 30, "high", <<480, 600>>, StartNone, NoneStr, FALSE, NoneStr),
      Task("R2", "feed", 20, "medium", <<530, 700>>, StartNone, NoneStr, FALSE, NoneStr),
      Task("L1", "walk", 30, "high", <<500, 620>>, StartNone, NoneStr, FALSE, NoneStr),
      Task("L2", "feed", 20, "medium", <<550, 700>>, StartNone, NoneStr, FALSE, NoneStr),
      Task("FX", "play", 15, "low", <<0, 1440>>, StartNone, NoneStr, TRUE, NoneStr),
      Task("FW", "play", 15, "low", <<520, 1320>>, StartNone, NoneStr, TRUE, NoneStr),
      Task("X", "groom", 30, "low", <<480, 1320>>, StartNone, "Y", FALSE, NoneStr),
      Task("Y", "groom", 30, "low", <<480, 1320>>, StartNone, "X", FALSE, NoneStr),
      Task("Y", "groom", 30, "low", <<480, 1320>>, StartNone, "X", TRUE, NoneStr),
      Task("P", "meds", 20, "high", <<480, 590>>, StartNone, NoneStr, FALSE, NoneStr),
      Task("H", "vet", 40, "high", <<480, 1320>>, StartNone, NoneStr, FALSE, NoneStr) }

\* Scheduler(break_time_minutes) values for the examples
CaseBreakTimes == { 0, 5, 10 }

\* A scheduler on which set_pet and set_owner have been called, as the
\* app does before any task is added.
InitCases ==
    /\ objs = <<>>
    /\ tasks = <<>>
    /\ pet = "dog"
    /\ owner = <<480, 1320>>
    /\ break_time_minutes \in CaseBreakTimes
    /\ op = "set_owner"
    /\ arg = 0
    /\ ret = 0
    /\ plan = <<>>
    /\ conflicts = <<>>
    /\ calls = 0
    /\ prev_plan = <<>>

NextCases ==
    \/ \E t \in CaseInputs : AddTask(t)
    \/ Plan

SpecCases == InitCases /\ [][NextCases]_vars

\* ------------------------------------- Task methods and scoring, alone

\* Task(...) arguments around each bound that validate() tests, and
\* deadlines (time_window[1]) for the score.
FieldInputs ==
    { Task(title, "walk", duration_minutes, priority, time_window, start_time,
           NoneStr, FALSE, NoneStr) :
        title \in {"", "A"},
        duration_minutes \in {0, 1, 1440, 1441},
        priority \in {"low", "medium", "high", "urgent"},
        time_window \in {<<480, 600>>, <<599, 600>>, <<600, 600>>, <<600, 480>>},
        start_time \in {StartNone, StartInt(-1), StartInt(0), StartStr(23, 59),
                        StartInt(1440), StartStr(24, 0), StartBad} }

\* current_time arguments of _get_dynamic_priority: 121, 120, 119, 60, 1,
\* 0 and -10 minutes before a deadline of 600.
Nows == {479, 480, 481, 540, 599, 600, 610}

\* One Task object constructed by a caller; no scheduler call is made.
InitTask ==
    /\ objs \in {<<t>> : t \in FieldInputs}
    /\ tasks = <<>>
    /\ pet = NoneStr
    /\ owner = NoOwner
    /\ break_time_minutes = 5
    /\ op = "Task"
    /\ arg = 1
    /\ ret = 0
    /\ plan = <<>>
    /\ conflicts = <<>>
    /\ calls = 0
    /\ prev_plan = <<>>

\* task.validate() on the object: it reads the fields and returns a bool.
ValidateCall ==
    /\ ret' = IF Validate(objs[1]) THEN 1 ELSE 0
    /\ op' = "validate"
    /\ arg' = 1
    /\ UNCHANGED <<objs, tasks, pet, owner, break_time_minutes, plan,
                   conflicts, calls, prev_plan>>

\* scheduler._get_dynamic_priority(task, current_time)
PriorityCall(current_time) ==
    /\ ret' = GetDynamicPriority(objs[1], current_time)
    /\ op' = "_get_dynamic_priority"
    /\ arg' = current_time
    /\ UNCHANGED <<objs, tasks, pet, owner, break_time_minutes, plan,
                   conflicts, calls, prev_plan>>

NextTask ==
    \/ ValidateCall
    \/ \E current_time \in Nows : PriorityCall(current_time)

SpecTask == InitTask /\ [][NextTask]_vars

\* ------------------------------------- generate_plan, one loop step at a time

\* Tasks for the stepwise run: two rigid tasks with a gap between them, a
\* rigid task that depends on the first, and two flexible tasks.
StepInputs ==
    { Task("R1", "walk", 30, "high", <<480, 600>>, StartNone, NoneStr, FALSE, NoneStr),
      Task("R2", "feed", 20, "medium", <<530, 700>>, StartNone, NoneStr, FALSE, NoneStr),
      Task("D", "groom", 30, "low", <<480, 1320>>, StartNone, "R1", FALSE, NoneStr),
      Task("FX", "play", 15, "low", <<0, 1440>>, StartNone, NoneStr, TRUE, NoneStr),
      Task("FW", "play", 15, "low", <<520, 1320>>, StartNone, NoneStr, TRUE, NoneStr) }

\* generate_plan has been entered and has not returned.
InCall == op \in {"generate_plan:loop", "generate_plan:gaps", "generate_plan:fill"}

\* What a step inside generate_plan leaves alone.
StepFrame ==
    UNCHANGED <<objs, tasks, pet, owner, break_time_minutes, ret, conflicts,
                calls, prev_plan>>

\* The end of generate_plan: scheduled items by time, then the others.
FinalOrder(filled) ==
    ByScheduledTime(SelectSeq(filled, LAMBDA p : p.scheduled_time >= 0))
    \o SelectSeq(filled, LAMBDA p : p.scheduled_time < 0)

\* The plan of the loop once it is over, and what _fill_gaps derives from
\* it: scheduled_items, gaps, and the flexible tasks it is given.
LoopPlan ==
    CHOOSE loop_plan \in
        { RigidLoop(objs, sorted_tasks, owner, break_time_minutes, pet,
                    Len(sorted_tasks)).plan :
            sorted_tasks \in {SortedRigid(objs, tasks, owner)} } : TRUE
ScheduledItems ==
    ByScheduledTime(SelectSeq(LoopPlan, LAMBDA item : item.scheduled_time >= 0))
FlexibleTasks == SelectSeq(tasks, LAMBDA o : objs[o].is_flexible)

\* add_task, which a caller can make only between calls
AddTaskBetweenCalls(t) == ~InCall /\ AddTask(t)

\* generate_plan is called: the early returns, or the locals are set up.
PlanEnter ==
    /\ ~InCall
    /\ prev_plan' = IF op = "generate_plan" THEN plan ELSE <<>>
    /\ calls' = IF op = "generate_plan" THEN 2 ELSE 1
    /\ plan' = <<>>
    /\ arg' = 0 /\ ret' = 0 /\ conflicts' = <<>>
    /\ op' = IF pet = NoneStr \/ owner = NoOwner \/ tasks = <<>>
             THEN "generate_plan" ELSE "generate_plan:loop"
    /\ UNCHANGED <<objs, tasks, pet, owner, break_time_minutes>>

\* LoopIter with a fault: a task that waits for its dependency is tried
\* again, the loop staying on it.
LoopIterRetrying ==
    /\ op = "generate_plan:loop"
    /\ \E sorted_tasks \in {SortedRigid(objs, tasks, owner)} :
          /\ arg < Len(sorted_tasks)
          /\ \E next \in {RigidLoop(objs, sorted_tasks, owner, break_time_minutes, pet,
                                    arg + 1).plan} :
                IF next[Len(next)].reason.text = "Waiting for dependency"
                THEN plan' = Append(plan, next[Len(next)]) /\ arg' = arg
                ELSE plan' = next /\ arg' = arg + 1
    /\ op' = op
    /\ StepFrame

\* One iteration of `for task in sorted_tasks`.
LoopIter ==
    /\ op = "generate_plan:loop"
    /\ \E sorted_tasks \in {SortedRigid(objs, tasks, owner)} :
          /\ arg < Len(sorted_tasks)
          /\ plan' = RigidLoop(objs, sorted_tasks, owner, break_time_minutes, pet,
                               arg + 1).plan
    /\ arg' = arg + 1
    /\ op' = op
    /\ StepFrame

\* The loop is over: _fill_gaps is called, and returns at once when there
\* is no flexible task.
LoopExit ==
    /\ op = "generate_plan:loop"
    /\ arg = Len(SelectSeq(tasks, LAMBDA o : ~objs[o].is_flexible))
    /\ arg' = 0
    /\ IF FlexibleTasks = <<>>
       THEN op' = "generate_plan" /\ plan' = FinalOrder(plan)
       ELSE op' = "generate_plan:gaps" /\ plan' = plan
    /\ StepFrame

\* One iteration of `for item in scheduled_items`; plan holds the loop's
\* items.
GapIter ==
    /\ op = "generate_plan:gaps"
    /\ arg < Len(SelectSeq(plan, LAMBDA item : item.scheduled_time >= 0))
    /\ arg' = arg + 1
    /\ UNCHANGED <<op, plan>>
    /\ StepFrame

\* The scan is over; the closing gap is added.
GapExit ==
    /\ op = "generate_plan:gaps"
    /\ arg = Len(SelectSeq(plan, LAMBDA item : item.scheduled_time >= 0))
    /\ arg' = 0
    /\ op' = "generate_plan:fill"
    /\ UNCHANGED plan
    /\ StepFrame

\* One iteration of `for gap_start, gap_end in gaps`, its inner loop over
\* the flexible tasks included.
FillIter ==
    /\ op = "generate_plan:fill"
    /\ \E loop_plan \in {LoopPlan} :
       \E gaps \in {Gaps(ByScheduledTime(SelectSeq(loop_plan,
                              LAMBDA item : item.scheduled_time >= 0)),
                          owner, break_time_minutes)} :
       \E flexible_tasks \in {FlexibleTasks} :
          /\ arg < Len(gaps)
          /\ plan' = loop_plan \o GapFill(objs, gaps, flexible_tasks, arg + 1).additional_items
    /\ arg' = arg + 1
    /\ op' = op
    /\ StepFrame

\* _fill_gaps returns, and generate_plan orders the items and returns.
FillExit ==
    /\ op = "generate_plan:fill"
    /\ \E gaps \in {Gaps(ScheduledItems, owner, break_time_minutes)} :
          arg = Len(gaps)
    /\ arg' = 0
    /\ op' = "generate_plan"
    /\ plan' = FinalOrder(plan)
    /\ StepFrame

\* The steps of a call that is under way.
RunCall == LoopIter \/ LoopExit \/ GapIter \/ GapExit \/ FillIter \/ FillExit

NextSteps ==
    \/ \E t \in StepInputs : AddTaskBetweenCalls(t)
    \/ PlanEnter
    \/ LoopIter
    \/ LoopExit
    \/ GapIter
    \/ GapExit
    \/ FillIter
    \/ FillExit

\* A call that has been entered keeps running: nothing suspends it.
SpecSteps == InitCases /\ [][NextSteps]_vars /\ WF_vars(RunCall)

\* ------------------------------ planning, on ranks and dependencies

\* Tasks for the planner's ranking and dependency cases.  H1 is a high
\* task whose window opens at 500; S is a low task that could be placed
\* at 480, before H1; MU is a medium task whose deadline is one minute
\* after the availability start, which gives it the largest boost there
\* is; Q depends on the title FX, which only a flexible task carries; FX
\* is that flexible task, and FD a flexible task with a dependency of its
\* own whose window opens at 520.  N is a high task whose window has
\* room for it once: a second N finds the cursor too far on.
OrderInputs ==
    { Task("H1", "walk", 30, "high", <<500, 620>>, StartNone, NoneStr, FALSE, NoneStr),
      Task("N", "vet", 30, "high", <<480, 530>>, StartNone, NoneStr, FALSE, NoneStr),
      Task("S", "feed", 15, "low", <<480, 1320>>, StartNone, NoneStr, FALSE, NoneStr),
      Task("MU", "meds", 40, "medium", <<400, 481>>, StartNone, NoneStr, FALSE, NoneStr),
      Task("Q", "groom", 20, "medium", <<480, 1320>>, StartNone, "FX", FALSE, NoneStr),
      Task("FX", "play", 15, "low", <<0, 1440>>, StartNone, NoneStr, TRUE, NoneStr),
      Task("FD", "play", 15, "low", <<520, 1320>>, StartNone, "Q", TRUE, NoneStr) }

NextOrder ==
    \/ \E t \in OrderInputs : AddTask(t)
    \/ Plan

SpecOrder == InitCases /\ [][NextOrder]_vars

\* ----------------------------------------------- the slot search, alone

\* Tasks of 15 and 30 minutes for _find_best_time.
SlotTasks ==
    { Task("S", "walk", duration_minutes, "high", <<0, 1440>>, StartNone,
           NoneStr, FALSE, NoneStr) : duration_minutes \in {15, 30} }

\* earliest_start and latest_end arguments: the search starts at 480; the
\* ends leave room for no probe, for some probes and for all of them.
SlotStarts == {480}
SlotEnds == {500, 540, 615, 630, 1320}

\* occupied_slots arguments: lists of up to two of these (start, end)
\* pairs.  (480, 600) covers the probes at offsets 0 to 105 and leaves
\* the one at 120 free.
SlotPairs == { <<480, 490>>, <<480, 600>>, <<510, 520>>, <<495, 585>>, <<600, 700>> }
SlotLists ==
    {<<>>} \cup { <<a>> : a \in SlotPairs } \cup { <<a, b>> : a \in SlotPairs, b \in SlotPairs }

\* One Task object; no scheduler call has been made.
InitSlots ==
    /\ objs \in {<<t>> : t \in SlotTasks}
    /\ tasks = <<>>
    /\ pet = NoneStr
    /\ owner = NoOwner
    /\ break_time_minutes = 5
    /\ op = "Task"
    /\ arg = 1
    /\ ret = 0
    /\ plan = <<>>
    /\ conflicts = <<>>
    /\ calls = 0
    /\ prev_plan = <<>>

\* scheduler._find_best_time(task, earliest_start, latest_end, occupied_slots)
FindBestTimeCall(earliest_start, latest_end, occupied_slots) ==
    /\ ret' = FindBestTime(objs[1], earliest_start, latest_end, occupied_slots)
    /\ op' = "_find_best_time"
    /\ arg' = <<earliest_start, latest_end, occupied_slots>>
    /\ UNCHANGED <<objs, tasks, pet, owner, break_time_minutes, plan,
                   conflicts, calls, prev_plan>>

NextSlots ==
    \E earliest_start \in SlotStarts, latest_end \in SlotEnds, occupied_slots \in SlotLists :
        FindBestTimeCall(earliest_start, latest_end, occupied_slots)

SpecSlots == InitSlots /\ [][NextSlots]_vars

\* -------------------------------------------------------------- claims

\* The last call was generate_plan with pet and owner set and a task list
\* that is not empty.
Planned ==
    op = "generate_plan" /\ pet # NoneStr /\ owner # NoOwner /\ tasks # <<>>

IsScheduled(item) == item.scheduled_time >= 0
ItemEnd(item) == item.scheduled_time + item.duration_minutes
GapFilled(item) == item.reason.text = "Gap-filled"
PlacedRigid(item) == item.reason.text = "Scheduled at"
\* the positions of the plan that refer to the Task at heap index o
ItemsOf(o) == { i \in 1..Len(plan) : plan[i].task = o }

\* C1: with pet and owner set and a non-empty list of admitted tasks,
\* generate_plan returns exactly as many PlanItems as the scheduler holds
\* tasks.
C1_CountPreserved == Planned => Len(plan) = Len(tasks)

\* C2: no two scheduled PlanItems of one generate_plan call have
\* intersecting intervals [scheduled_time, scheduled_time + duration).
C2_NoOverlap ==
    op = "generate_plan" =>
        \A i, j \in 1..Len(plan) :
            (i < j /\ IsScheduled(plan[i]) /\ IsScheduled(plan[j]))
            => ~(plan[i].scheduled_time < ItemEnd(plan[j])
                 /\ plan[j].scheduled_time < ItemEnd(plan[i]))

\* A plan with two rigid items placed by the loop and a gap-filled item.
C2_Witness ==
    /\ op = "generate_plan"
    /\ \E i, j, k \in 1..Len(plan) :
          /\ i # j
          /\ PlacedRigid(plan[i]) /\ IsScheduled(plan[i])
          /\ PlacedRigid(plan[j]) /\ IsScheduled(plan[j])
          /\ GapFilled(plan[k]) /\ IsScheduled(plan[k])

\* C3: every scheduled PlanItem, rigid or gap-filled, lies within its
\* task's time_window and within the owner's availability.
C3_WithinWindows ==
    op = "generate_plan" =>
        \A i \in 1..Len(plan) :
            IsScheduled(plan[i]) =>
                LET task == objs[plan[i].task]
                IN /\ task.time_window[1] <= plan[i].scheduled_time
                   /\ ItemEnd(plan[i]) <= task.time_window[2]
                   /\ owner[1] <= plan[i].scheduled_time
                   /\ ItemEnd(plan[i]) <= owner[2]

\* A plan with a placed rigid item, a gap-filled item, and a rigid task
\* left out because it no longer fits before the end of the availability
\* although its own window would still hold it.
C3_Witness ==
    /\ op = "generate_plan"
    /\ \E i, k, u \in 1..Len(plan) :
          /\ PlacedRigid(plan[i]) /\ IsScheduled(plan[i])
          /\ GapFilled(plan[k]) /\ IsScheduled(plan[k])
          /\ plan[u].reason = ReasonWindow

\* C4: a scheduled task with depends_on = X, rigid or flexible, never has a
\* scheduled_time earlier than that of a scheduled task titled X.
C4_DependencyOrder ==
    op = "generate_plan" =>
        \A i, j \in 1..Len(plan) :
            ( /\ IsScheduled(plan[i]) /\ IsScheduled(plan[j])
              /\ ~Falsy(objs[plan[i].task].depends_on)
              /\ objs[plan[i].task].depends_on = objs[plan[j].task].title )
            => plan[i].scheduled_time >= plan[j].scheduled_time

\* C5: every task of the scheduler has exactly one PlanItem in the plan,
\* and a task that was not placed has scheduled_time = -1 and a non-empty
\* reason.
C5_EveryTaskRepresented ==
    Planned =>
        \A k \in 1..Len(tasks) :
            /\ Cardinality(ItemsOf(tasks[k])) = 1
            /\ \A i \in ItemsOf(tasks[k]) :
                  ~IsScheduled(plan[i])
                  => plan[i].scheduled_time = Unscheduled /\ plan[i].reason.text # ""

HasStart(o) == objs[o].start_time # None
Minutes(o) == objs[o].start_time .. (objs[o].start_time + objs[o].duration_minutes - 1)
Intersecting(list) ==
    { pr \in (1..Len(list)) \X (1..Len(list)) :
        /\ pr[1] < pr[2]
        /\ HasStart(list[pr[1]]) /\ HasStart(list[pr[2]])
        /\ Minutes(list[pr[1]]) \cap Minutes(list[pr[2]]) # {} }
\* the warnings of a list of warnings that are about the tasks o1 and o2
About(warnings, o1, o2) ==
    { w \in 1..Len(warnings) : {warnings[w].task1, warnings[w].task2} = {o1, o2} }

\* C7: detect_scheduling_conflicts reports exactly one conflict for each
\* pair of tasks with start times whose intervals intersect, none for any
\* other pair, and the overlap it reports is min(end1, end2) -
\* max(start1, start2).
C7_ExactlyTheOverlaps ==
    op = "detect_scheduling_conflicts" =>
        /\ Len(conflicts) = Cardinality(Intersecting(tasks))
        /\ \A pr \in Intersecting(tasks) :
              LET a == objs[tasks[pr[1]]]
                  b == objs[tasks[pr[2]]]
              IN /\ Cardinality(About(conflicts, tasks[pr[1]], tasks[pr[2]])) = 1
                 /\ \A w \in About(conflicts, tasks[pr[1]], tasks[pr[2]]) :
                       conflicts[w].overlap_minutes =
                           Min(a.start_time + a.duration_minutes,
                               b.start_time + b.duration_minutes)
                           - Max(a.start_time, b.start_time)

\* A scan that reports a conflict and also meets a pair of tasks with
\* start times that do not intersect (where the early exit is taken).
C7_Witness ==
    /\ op = "detect_scheduling_conflicts"
    /\ conflicts # <<>>
    /\ \E i, j \in 1..Len(tasks) :
          /\ i < j /\ HasStart(tasks[i]) /\ HasStart(tasks[j])
          /\ <<i, j>> \notin Intersecting(tasks)

\* the unordered pairs of tasks a list of warnings is about
ConflictPairs(warnings) ==
    { {warnings[w].task1, warnings[w].task2} : w \in 1..Len(warnings) }
\* the orders in which the tasks of self.tasks can have been added
Reorderings(list) ==
    { [i \in 1..Len(list) |-> list[p[i]]] : p \in Permutations(1..Len(list)) }

\* C8: the set of unordered conflicting pairs reported is the same for
\* every order in which the same tasks were added to the scheduler.
C8_OrderIndependent ==
    op = "detect_scheduling_conflicts" =>
        \A list \in Reorderings(tasks) :
            ConflictPairs(DetectSchedulingConflicts(objs, list, pet))
                = ConflictPairs(conflicts)

\* A scan with a conflict reported over a task list of three tasks with
\* start times that is not in start-time order.
C8_Witness ==
    /\ op = "detect_scheduling_conflicts"
    /\ conflicts # <<>>
    /\ Len(tasks) >= 3
    /\ \A i \in 1..Len(tasks) : HasStart(tasks[i])
    /\ \E i, j \in 1..Len(tasks) :
          i < j /\ objs[tasks[i]].start_time > objs[tasks[j]].start_time

\* C9: add_task on a task for which validate() is false returns False and
\* leaves the task list unchanged; on a task for which validate() is true
\* it returns True and appends the task.
C9_AddTask ==
    [][ op' = "add_task" =>
          IF Validate(objs'[arg'])
          THEN ret' = 1 /\ tasks' = Append(tasks, arg') /\ Len(tasks') = Len(tasks) + 1
          ELSE ret' = 0 /\ tasks' = tasks ]_vars

\* add_task has just rejected a task, after it had admitted another.
C9_Witness ==
    /\ op = "add_task" /\ ret = 0
    /\ ~Validate(objs[arg])
    /\ tasks # <<>>

\* C10: every task in the scheduler's task list satisfies validate().
C10_AllValid == \A i \in 1..Len(tasks) : Validate(objs[tasks[i]])

\* mark_task_complete has just appended a successor, and add_task had
\* been called on a task that fails validate().
C10_Witness ==
    /\ op = "mark_task_complete" /\ ret # 0
    /\ Held(tasks, ret)
    /\ \E o \in Oids : ~Validate(objs[o])

\* C12: generate_plan returns an empty plan, and leaves the task objects,
\* the task list, the pet, the owner and the break time as they were,
\* whenever the pet is not set, the owner is not set or the task list is
\* empty.
C12_EmptyPlan ==
    [][ (op' = "generate_plan"
         /\ (pet = NoneStr \/ owner = NoOwner \/ tasks = <<>>)) =>
          /\ plan' = <<>>
          /\ UNCHANGED <<objs, tasks, pet, owner, break_time_minutes>> ]_vars

\* generate_plan has returned an empty plan on a scheduler that has an
\* owner and tasks but no pet.
C12_Witness ==
    /\ op = "generate_plan" /\ plan = <<>>
    /\ pet = NoneStr /\ owner # NoOwner /\ tasks # <<>>

\* C13: in the returned plan every item with scheduled_time >= 0 comes
\* before every item with scheduled_time = -1, and the scheduled items are
\* in non-decreasing order of scheduled_time.
C13_ScheduledFirstInTimeOrder ==
    op = "generate_plan" =>
        /\ \A i \in 1..Len(plan) :
              plan[i].scheduled_time >= 0 \/ plan[i].scheduled_time = Unscheduled
        /\ \A i, j \in 1..Len(plan) :
              (i < j /\ plan[j].scheduled_time >= 0) =>
                  /\ plan[i].scheduled_time >= 0
                  /\ plan[i].scheduled_time <= plan[j].scheduled_time

\* A plan in which a gap-filled item precedes an item placed by the loop,
\* which precedes an unscheduled item.
C13_Witness ==
    /\ op = "generate_plan"
    /\ \E i, j, k \in 1..Len(plan) :
          /\ i < j /\ j < k
          /\ GapFilled(plan[i]) /\ plan[i].scheduled_time < plan[j].scheduled_time
          /\ PlacedRigid(plan[j])
          /\ plan[k].scheduled_time = Unscheduled

\* C14: with the availability [480, 1320) and exactly the rigid tasks A
\* (high, window [480, 600), 30 minutes) and B (the same, depends_on A),
\* generate_plan schedules A at 480 and B at 510 or later, in whichever
\* order the two were added.
C14_EitherOrder ==
    (/\ Planned
     /\ owner = <<480, 1320>>
     /\ Len(tasks) = 2
     /\ {objs[tasks[1]].title, objs[tasks[2]].title} = {"A", "B"}) =>
        \E i, j \in 1..Len(plan) :
            /\ objs[plan[i].task].title = "A" /\ plan[i].scheduled_time = 480
            /\ objs[plan[j].task].title = "B" /\ plan[j].scheduled_time >= 510

\* C16: mark_task_complete on a task the scheduler holds sets its
\* completed flag; if its frequency is daily or weekly, exactly one new
\* task with the same fields and completed = false is appended and
\* returned, otherwise None is returned and the task list is unchanged; on
\* a task the scheduler does not hold, None is returned and nothing
\* changes, the task's completed flag included.
C16_MarkTaskComplete ==
    [][ op' = "mark_task_complete" =>
          IF Held(tasks, arg')
          THEN /\ objs'[arg'].completed = TRUE
               /\ \A o \in 1..Len(objs) : o # arg' => objs'[o] = objs[o]
               /\ IF objs[arg'].frequency \in {"daily", "weekly"}
                  THEN /\ Len(objs') = Len(objs) + 1
                       /\ ret' = Len(objs')
                       /\ tasks' = Append(tasks, ret')
                       /\ objs'[ret'] = [objs[arg'] EXCEPT !.completed = FALSE]
                  ELSE /\ ret' = 0
                       /\ tasks' = tasks
                       /\ Len(objs') = Len(objs)
          ELSE ret' = 0 /\ objs' = objs /\ tasks' = tasks ]_vars

\* mark_task_complete has returned the successor of a weekly task.
C16_Witness ==
    /\ op = "mark_task_complete" /\ ret # 0 /\ ret # arg
    /\ objs[arg].frequency = "weekly"
    /\ objs[arg].completed /\ ~objs[ret].completed
    /\ tasks[Len(tasks)] = ret

\* C17: a rigid task whose dependency is not among the tasks placed when
\* its turn comes gets an item with scheduled_time = -1 and a reason that
\* names the dependency; the cursor and the occupied intervals stay as
\* they were; and that item is the task's only one in the returned plan,
\* also when the task it depends on is placed later in the pass.
C17_BlockedOnce ==
    Planned =>
        LET sorted_tasks == SortedRigid(objs, tasks, owner)
            Locals(k) == RigidLoop(objs, sorted_tasks, owner, break_time_minutes, pet, k)
        IN \A k \in 1..Len(sorted_tasks) :
              LET before == Locals(k - 1)
                  after == Locals(k)
                  task == objs[sorted_tasks[k]]
                  placed == { objs[before.plan[i].task].title :
                                i \in { n \in 1..Len(before.plan) :
                                          before.plan[n].scheduled_time >= 0 } }
              IN (task.depends_on \notin {NoneStr, ""} /\ task.depends_on \notin placed) =>
                    /\ Len(after.plan) = Len(before.plan) + 1
                    /\ SubSeq(after.plan, 1, Len(before.plan)) = before.plan
                    /\ after.plan[Len(after.plan)].task = sorted_tasks[k]
                    /\ after.plan[Len(after.plan)].scheduled_time = Unscheduled
                    /\ after.current_time = before.current_time
                    /\ after.occupied_slots = before.occupied_slots
                    /\ Cardinality(ItemsOf(sorted_tasks[k])) = 1
                    /\ \A i \in ItemsOf(sorted_tasks[k]) :
                          /\ plan[i].scheduled_time = Unscheduled
                          /\ plan[i].reason.text = "Waiting for dependency"
                          /\ plan[i].reason.depends_on = task.depends_on

\* A plan in which a task is left waiting for a dependency that the same
\* pass has placed.
C17_Witness ==
    /\ Planned
    /\ \E i, j \in 1..Len(plan) :
          /\ plan[j].scheduled_time = Unscheduled
          /\ plan[j].reason.text = "Waiting for dependency"
          /\ PlacedRigid(plan[i]) /\ plan[i].scheduled_time >= 0
          /\ objs[plan[i].task].title = plan[j].reason.depends_on

\* The positions of the plan's items that the loop placed.
RigidPlaced == { i \in 1..Len(plan) : PlacedRigid(plan[i]) /\ IsScheduled(plan[i]) }

\* Items i and j were placed by the loop with 20 idle minutes from the end
\* of i to the start of j, no other rigid item in between.
IdleGap(i, j) ==
    /\ i \in RigidPlaced /\ j \in RigidPlaced
    /\ plan[j].scheduled_time - ItemEnd(plan[i]) = 20
    /\ ~\E k \in RigidPlaced :
          ItemEnd(plan[i]) <= plan[k].scheduled_time
          /\ plan[k].scheduled_time < plan[j].scheduled_time

\* The held Task o is flexible, 15 minutes long, and its window covers the
\* idle minutes between the items i and j.
CoversGap(o, i, j) ==
    /\ Held(tasks, o)
    /\ objs[o].is_flexible /\ objs[o].duration_minutes = 15
    /\ objs[o].time_window[1] <= ItemEnd(plan[i])
    /\ plan[j].scheduled_time <= objs[o].time_window[2]

\* The Task o has an item that lies between the items i and j.
InGap(o, i, j) ==
    \E n \in ItemsOf(o) :
        /\ ItemEnd(plan[i]) <= plan[n].scheduled_time
        /\ plan[n].scheduled_time + plan[n].duration_minutes <= plan[j].scheduled_time

\* Some 15 minutes of the availability before the start of item i are
\* clear of every rigid item and of the break that follows it.
IdleBefore(i) ==
    \E m \in owner[1]..(plan[i].scheduled_time - MinGap) :
        \A k \in RigidPlaced :
            ~(m < ItemEnd(plan[k]) + break_time_minutes
              /\ plan[k].scheduled_time < m + MinGap)

\* No flexible task precedes the Task o in the task list.
FirstFlexible(o) ==
    \A n \in 1..Len(tasks) :
        objs[tasks[n]].is_flexible => \E q \in 1..n : tasks[q] = o

\* C15 as stated: whenever two rigid tasks are scheduled with 20 idle
\* minutes between them and a flexible task of 15 minutes whose window
\* covers those minutes exists, that task is scheduled inside them.
C15_GapFilled ==
    Planned =>
        \A i, j \in 1..Len(plan) : \A o \in Oids :
            (IdleGap(i, j) /\ CoversGap(o, i, j)) => InGap(o, i, j)

\* C15, amended: with a break of at most 5 minutes, no idle 15 minutes
\* before the first of the two rigid tasks, and no flexible task before
\* this one in the task list, the flexible task is scheduled inside the 20
\* idle minutes, at the first rigid task's end plus the break.
C15_FirstGapFilled ==
    Planned =>
        \A i, j \in 1..Len(plan) : \A o \in Oids :
            (/\ IdleGap(i, j) /\ CoversGap(o, i, j)
             /\ break_time_minutes <= 5
             /\ ~IdleBefore(i)
             /\ FirstFlexible(o)) =>
                /\ InGap(o, i, j)
                /\ \A n \in ItemsOf(o) :
                      plan[n].scheduled_time = ItemEnd(plan[i]) + break_time_minutes

\* With a break of 5, a flexible task fills the 15 minutes that remain of
\* the 20 between two rigid items.
C15_Witness ==
    /\ Planned /\ break_time_minutes = 5
    /\ \E i, j \in 1..Len(plan) : \E o \in Oids :
          /\ IdleGap(i, j) /\ CoversGap(o, i, j)
          /\ ~IdleBefore(i) /\ FirstFlexible(o)
          /\ InGap(o, i, j)
          /\ \A n \in ItemsOf(o) : ItemEnd(plan[n]) = plan[j].scheduled_time

\* C18: two held tasks whose depends_on fields name each other's titles
\* both get an unscheduled item with a dependency reason from every
\* generate_plan call.
C18_CycleUnscheduled ==
    Planned =>
        \A a, b \in 1..Len(tasks) :
            (/\ a # b
             /\ objs[tasks[a]].depends_on = objs[tasks[b]].title
             /\ objs[tasks[b]].depends_on = objs[tasks[a]].title) =>
                /\ ItemsOf(tasks[a]) # {}
                /\ \A i \in ItemsOf(tasks[a]) :
                      /\ plan[i].scheduled_time = Unscheduled
                      /\ plan[i].reason.text = "Waiting for dependency"

\* The score generate_plan ranks the Task o by, and its duration.
ScoreAtStart(o) == GetDynamicPriority(objs[o], owner[1])
RanksNotAfter(o1, o2) ==
    \/ ScoreAtStart(o1) > ScoreAtStart(o2)
    \/ /\ ScoreAtStart(o1) = ScoreAtStart(o2)
       /\ objs[o1].duration_minutes >= objs[o2].duration_minutes

\* The items of the loop, in the order in which it made them.
Attempts ==
    RigidLoop(objs, SortedRigid(objs, tasks, owner), owner, break_time_minutes, pet,
              Len(SortedRigid(objs, tasks, owner))).plan

\* C19: the loop attempts every rigid task once, in descending order of
\* the score computed at the availability start, equal scores in
\* descending order of duration; so the rigid items it places appear in
\* the returned plan in that order.
C19_AttemptOrder ==
    Planned =>
        LET attempts == Attempts
            order == [i \in 1..Len(attempts) |-> attempts[i].task]
            rigid == { tasks[n] : n \in { q \in 1..Len(tasks) : ~objs[tasks[q]].is_flexible } }
        IN /\ Len(order) = Cardinality(rigid)
           /\ { order[i] : i \in 1..Len(order) } = rigid
           /\ \A i, j \in 1..Len(order) :
                 i < j => RanksNotAfter(order[i], order[j])
           /\ \A i, j \in RigidPlaced :
                 i < j => RanksNotAfter(plan[i].task, plan[j].task)

\* A plan of three rigid items in which the second outranked the third at
\* the availability start through its duration, though at the cursor left
\* by the first placement the third has the higher score.
C19_Witness ==
    /\ Planned
    /\ \E i, j, k \in RigidPlaced :
          /\ i < j /\ j < k
          /\ ScoreAtStart(plan[j].task) = ScoreAtStart(plan[k].task)
          /\ objs[plan[j].task].duration_minutes > objs[plan[k].task].duration_minutes
          /\ GetDynamicPriority(objs[plan[j].task], ItemEnd(plan[i]) + break_time_minutes)
               < GetDynamicPriority(objs[plan[k].task], ItemEnd(plan[i]) + break_time_minutes)

\* [start, start + duration) meets none of the occupied intervals.
FreeAt(start, duration, occupied_slots) ==
    \A n \in 1..Len(occupied_slots) :
        ~(start < occupied_slots[n][2] /\ occupied_slots[n][1] < start + duration)

\* C21: _find_best_time returns earliest_start when the task is free
\* there; otherwise the first of the candidates earliest_start + 15k,
\* k = 1..8, that ends by latest_end and is free, and None when there is
\* no such candidate.
C21_EightProbes ==
    op = "_find_best_time" =>
        LET duration == objs[1].duration_minutes
            earliest_start == arg[1]
            latest_end == arg[2]
            occupied_slots == arg[3]
            accepted == { k \in 1..8 :
                            /\ earliest_start + 15 * k + duration <= latest_end
                            /\ FreeAt(earliest_start + 15 * k, duration, occupied_slots) }
        IN IF FreeAt(earliest_start, duration, occupied_slots)
           THEN ret = earliest_start
           ELSE IF accepted = {} THEN ret = None
           ELSE \E k \in accepted :
                   /\ ret = earliest_start + 15 * k
                   /\ \A q \in accepted : k <= q

\* C22: a start returned by _find_best_time ends by latest_end and meets
\* no occupied interval, also when it is the first probe, earliest_start.
C22_ReturnedSlotFits ==
    (op = "_find_best_time" /\ ret # None) =>
        /\ ret + objs[1].duration_minutes <= arg[2]
        /\ FreeAt(ret, objs[1].duration_minutes, arg[3])

\* The locals of generate_plan's loop after each number of iterations,
\* for the scheduler as it is.
LoopLocals ==
    LET sorted_tasks == SortedRigid(objs, tasks, owner)
    IN [k \in 0..Len(sorted_tasks) |->
           RigidLoop(objs, sorted_tasks, owner, break_time_minutes, pet, k)]

\* The titles of the tasks that the items of plan_ place.
PlacedTitles(plan_) ==
    { objs[plan_[i].task].title :
        i \in { n \in 1..Len(plan_) : plan_[n].scheduled_time >= 0 } }

\* C23: a rigid task whose dependency is satisfied gets a window-infeasible
\* unscheduled item, the cursor and the occupied intervals staying as
\* they were, exactly when max(cursor, time_window[0], availability[0])
\* + duration > min(time_window[1], availability[1]); otherwise the slot
\* search decides (the task is placed where the search says, or gets the
\* no-slot item).
C23_WindowInfeasible ==
    Planned =>
        LET sorted_tasks == SortedRigid(objs, tasks, owner)
            locals == LoopLocals
        IN \A k \in 1..Len(sorted_tasks) :
              LET before == locals[k - 1]
                  after == locals[k]
                  task == objs[sorted_tasks[k]]
                  item == after.plan[Len(after.plan)]
                  lower == Max(Max(before.current_time, task.time_window[1]), owner[1])
                  upper == Min(task.time_window[2], owner[2])
              IN (task.depends_on \in {NoneStr, ""} \/ task.depends_on \in PlacedTitles(before.plan)) =>
                    /\ Len(after.plan) = Len(before.plan) + 1
                    /\ item.task = sorted_tasks[k]
                    /\ IF lower + task.duration_minutes > upper
                       THEN /\ item.scheduled_time = Unscheduled
                            /\ item.reason.text = "Task time window doesn't overlap with owner availability"
                            /\ after.current_time = before.current_time
                            /\ after.occupied_slots = before.occupied_slots
                       ELSE \/ /\ item.reason.text = "Scheduled at"
                               /\ item.scheduled_time >= lower
                               /\ item.scheduled_time + task.duration_minutes <= upper
                            \/ /\ item.reason.text = "No available slot in preferred time window"
                               /\ item.scheduled_time = Unscheduled

\* A plan with a window-infeasible item for a task whose own window would
\* fit the availability: the cursor had moved too far.
C23_Witness ==
    /\ Planned
    /\ \E i \in 1..Len(plan) :
          /\ plan[i].scheduled_time = Unscheduled
          /\ plan[i].reason.text = "Task time window doesn't overlap with owner availability"
          /\ Max(objs[plan[i].task].time_window[1], owner[1]) + plan[i].duration_minutes
               <= Min(objs[plan[i].task].time_window[2], owner[2])

\* C24: in a returned plan, each scheduled item starts no earlier than the
\* end of the scheduled item before it plus break_time_minutes.
C24_BreakBetween ==
    op = "generate_plan" =>
        \A i, j \in 1..Len(plan) :
            (j = i + 1 /\ IsScheduled(plan[i]) /\ IsScheduled(plan[j])) =>
                plan[j].scheduled_time >= ItemEnd(plan[i]) + break_time_minutes

\* The scheduled items that _fill_gaps is given, in time order: those the
\* loop placed.
RigidSeq == SelectSeq(plan, LAMBDA p : PlacedRigid(p) /\ IsScheduled(p))

\* The idle intervals as the claim lists them: availability start to the
\* first item, each item's end plus the break to the next item's start,
\* the last item's end plus the break to the availability end (the whole
\* availability when there is no item); and those of at least 15 minutes.
IdleIntervals ==
    IF RigidSeq = <<>> THEN <<owner>>
    ELSE <<<<owner[1], RigidSeq[1].scheduled_time>>>>
         \o [i \in 1..(Len(RigidSeq) - 1) |->
               <<ItemEnd(RigidSeq[i]) + break_time_minutes, RigidSeq[i + 1].scheduled_time>>]
         \o <<<<ItemEnd(RigidSeq[Len(RigidSeq)]) + break_time_minutes, owner[2]>>>>
Sites == SelectSeq(IdleIntervals, LAMBDA g : g[2] - g[1] >= 15)

\* C25: the gaps of _fill_gaps are exactly the idle intervals of at least
\* 15 minutes from the availability start to the first scheduled item,
\* from each scheduled item's end plus the break to the next one's start,
\* and from the last one's end plus the break to the availability end;
\* unscheduled items bound no gap.
C25_PlacementSites ==
    Planned =>
        LET scheduled_items ==
                ByScheduledTime(SelectSeq(LoopLocals[Len(SortedRigid(objs, tasks, owner))].plan,
                                          LAMBDA item : item.scheduled_time >= 0))
        IN /\ scheduled_items = RigidSeq
           /\ Gaps(scheduled_items, owner, break_time_minutes) = Sites

\* A plan with a break of 5 whose sites are one before the first rigid
\* item, one between two rigid items and the closing one, and with an
\* unscheduled item.
C25_Witness ==
    /\ Planned /\ break_time_minutes = 5
    /\ Len(RigidSeq) = 2 /\ Len(Sites) = 3
    /\ \E i \in 1..Len(plan) : plan[i].scheduled_time = Unscheduled

\* C26: the gaps are visited in chronological order; each gets, at its
\* start, the first flexible task in list order, among those not placed in
\* an earlier gap, with duration <= gap length, time_window[0] <= gap
\* start and gap start + duration <= time_window[1], and no second task;
\* a gap that no remaining task fits gets none.
C26_FirstFit ==
    Planned =>
        LET sites == Sites
            flexible_tasks == SelectSeq(tasks, LAMBDA o : objs[o].is_flexible)
            filled == { i \in 1..Len(plan) : GapFilled(plan[i]) }
            FilledAt(g) == { i \in filled :
                               /\ sites[g][1] <= plan[i].scheduled_time
                               /\ plan[i].scheduled_time < sites[g][2] }
            TakenBefore(g) == { plan[i].task :
                                  i \in { n \in filled : plan[n].scheduled_time < sites[g][1] } }
            Fits(o, g) == /\ objs[o].duration_minutes <= sites[g][2] - sites[g][1]
                          /\ objs[o].time_window[1] <= sites[g][1]
                          /\ sites[g][1] + objs[o].duration_minutes <= objs[o].time_window[2]
            Candidates(g) == { n \in 1..Len(flexible_tasks) :
                                 /\ flexible_tasks[n] \notin TakenBefore(g)
                                 /\ Fits(flexible_tasks[n], g) }
        IN /\ \A i \in filled : \E g \in 1..Len(sites) : i \in FilledAt(g)
           /\ \A g \in 1..Len(sites) :
                 IF Candidates(g) = {} THEN FilledAt(g) = {}
                 ELSE \E i \in filled :
                         /\ FilledAt(g) = {i}
                         /\ plan[i].scheduled_time = sites[g][1]
                         /\ \E n \in Candidates(g) :
                               /\ plan[i].task = flexible_tasks[n]
                               /\ \A q \in Candidates(g) : n <= q
                         /\ plan[i].duration_minutes = objs[plan[i].task].duration_minutes

\* A plan in which the first gap went to the second flexible task of the
\* list, the first one's window not being open yet, and a later gap to
\* the first.
C26_Witness ==
    /\ Planned
    /\ \E i, j \in 1..Len(plan) : \E a, b \in 1..Len(tasks) :
          /\ GapFilled(plan[i]) /\ GapFilled(plan[j])
          /\ plan[i].scheduled_time < plan[j].scheduled_time
          /\ tasks[a] = plan[i].task /\ tasks[b] = plan[j].task
          /\ b < a
          /\ objs[tasks[b]].time_window[1] > plan[i].scheduled_time

\* C30: at every step of the loop every occupied interval ends at or
\* before the cursor; no item of a returned plan has the no-slot reason
\* and no reason says that the time was adjusted to avoid conflicts.
C30_FirstProbeFree ==
    Planned =>
        LET locals == LoopLocals
        IN /\ \A k \in DOMAIN locals :
                 \A n \in 1..Len(locals[k].occupied_slots) :
                     locals[k].occupied_slots[n][2] <= locals[k].current_time
           /\ \A i \in 1..Len(plan) :
                 /\ plan[i].reason.text # "No available slot in preferred time window"
                 /\ plan[i].reason.how # "adjusted to avoid conflicts"

\* A plan in which a rigid item was placed at the cursor, later than its
\* window and the availability open, behind another rigid item.
C30_Witness ==
    /\ Planned
    /\ \E i, j \in RigidPlaced :
          /\ i < j
          /\ plan[j].scheduled_time = ItemEnd(plan[i]) + break_time_minutes
          /\ plan[j].scheduled_time > objs[plan[j].task].time_window[1]
          /\ plan[j].reason.how = "optimal time"

\* C27: generate_plan and detect_scheduling_conflicts leave the task list,
\* every field of every task, the pet, the owner and break_time_minutes as
\* they were before the call.
C27_QueriesChangeNothing ==
    [][ op' \in {"generate_plan", "detect_scheduling_conflicts"} =>
          /\ tasks' = tasks
          /\ objs' = objs
          /\ pet' = pet
          /\ owner' = owner
          /\ break_time_minutes' = break_time_minutes ]_vars

\* detect_scheduling_conflicts has reported two or more conflicts on a
\* task list that is not in start_time order.
C27_Witness ==
    /\ op = "detect_scheduling_conflicts"
    /\ Len(conflicts) >= 2
    /\ \E i, j \in 1..Len(tasks) :
          /\ i < j
          /\ objs[tasks[j]].start_time # None
          /\ objs[tasks[i]].start_time > objs[tasks[j]].start_time

\* The task and the time of each item of a plan.
Assignment(plan_) == [i \in 1..Len(plan_) |-> <<plan_[i].task, plan_[i].scheduled_time>>]

\* Other values for the fields that are said not to matter.
Disguises ==
    { [start_time |-> 700, completed |-> TRUE, frequency |-> "daily",
       notes |-> "after breakfast", task_type |-> "walk"],
      [start_time |-> 480, completed |-> FALSE, frequency |-> "weekly",
       notes |-> "", task_type |-> "other"],
      [start_time |-> None, completed |-> TRUE, frequency |-> NoneStr,
       notes |-> "x", task_type |-> "feed"] }
Disguised(t, v) ==
    [t EXCEPT !.start_time = v.start_time, !.completed = v.completed,
              !.frequency = v.frequency, !.notes = v.notes,
              !.task_type = v.task_type]

\* C28: the task-to-time assignment of the returned plan is the same for
\* a scheduler that differs in the start_time, completed, frequency, notes
\* and task_type of any of its tasks and in the pet's species.
C28_PlacementIgnoresAnnotations ==
    (op = "generate_plan" /\ tasks # <<>>) =>
        \A changed \in SUBSET Oids : \A v \in Disguises : \A species \in {"dog", "cat"} :
            Assignment(GeneratePlan([o \in Oids |-> IF o \in changed THEN Disguised(objs[o], v)
                                                     ELSE objs[o]],
                                    tasks, species, owner, break_time_minutes))
              = Assignment(plan)

\* A returned plan with an item the loop placed, a gap-filled item and an
\* unscheduled item.
C28_Witness ==
    /\ op = "generate_plan"
    /\ \E i, j, k \in 1..Len(plan) :
          /\ PlacedRigid(plan[i]) /\ GapFilled(plan[j])
          /\ plan[k].scheduled_time = Unscheduled

\* The length that the guards of the steps of the loop a call is in
\* compare the index to.
GuardLength ==
    CASE op = "generate_plan:loop" -> Len(SortedRigid(objs, tasks, owner))
      [] op = "generate_plan:gaps" -> Len(SelectSeq(plan, LAMBDA item : item.scheduled_time >= 0))
      [] op = "generate_plan:fill" -> Len(Gaps(ScheduledItems, owner, break_time_minutes))
      [] OTHER -> 0

\* A bound on the steps a call has left: the rest of the loop it is in,
\* that loop's exit, and the loops after it. The scan of the scheduled
\* items makes at most Len(tasks) iterations and the loop over the gaps
\* at most Len(tasks) + 1.
StepsLeft ==
    CASE op = "generate_plan:loop" ->
            (Len(SelectSeq(tasks, LAMBDA o : ~objs[o].is_flexible)) - arg) + 1
            + (Len(tasks) + 1) + (Len(tasks) + 2)
      [] op = "generate_plan:gaps" ->
            (Len(SelectSeq(plan, LAMBDA item : item.scheduled_time >= 0)) - arg) + 1
            + (Len(tasks) + 2)
      [] op = "generate_plan:fill" -> (Len(tasks) + 1 - arg) + 1
      [] OTHER -> 0

\* C29: a generate_plan call that has been entered returns: while the call
\* has not returned, the loop it is in can iterate or exit (its index is
\* at most the length its guards compare it to), and every step inside
\* the call lowers a bound on the steps left that stays positive until the
\* call returns.
C29_Terminates ==
    /\ [](InCall => (0 <= arg /\ arg <= GuardLength))
    /\ [][ /\ InCall => (StepsLeft' < StepsLeft /\ StepsLeft' >= 0)
           /\ InCall' => StepsLeft' > 0 ]_vars

\* generate_plan has returned after iterations of all three loops, with
\* the plan that the call computes.
C29_Witness ==
    /\ op = "generate_plan"
    /\ plan = GeneratePlan(objs, tasks, pet, owner, break_time_minutes)
    /\ \E i, j \in 1..Len(plan) :
          /\ PlacedRigid(plan[i]) /\ GapFilled(plan[j])
          /\ plan[i].scheduled_time < plan[j].scheduled_time

\* C36: every mark_task_complete call on a daily or weekly task that the
\* scheduler holds, completed already or not, appends one more successor
\* (so n calls on a task leave n successors in the list); and a plan that
\* generate_plan returns has a PlanItem for every daily or weekly task in
\* the list, the completed original and each successor.
C36_SuccessorPerCall ==
    /\ [][ (op' = "mark_task_complete" /\ Held(tasks, arg')
              /\ objs[arg'].frequency \in {"daily", "weekly"}) =>
             /\ Len(objs') = Len(objs) + 1
             /\ tasks' = Append(tasks, Len(objs'))
             /\ objs'[arg'].completed
             /\ ~objs'[Len(objs')].completed
             /\ objs'[Len(objs')].title = objs[arg'].title ]_vars
    /\ [](Planned =>
            \A k \in 1..Len(tasks) :
                objs[tasks[k]].frequency \in {"daily", "weekly"} => ItemsOf(tasks[k]) # {})

\* Task o1 ranks strictly before o2: a higher score at the availability
\* start, or the same score and a longer duration.
RanksBefore(o1, o2) ==
    \/ ScoreAtStart(o1) > ScoreAtStart(o2)
    \/ /\ ScoreAtStart(o1) = ScoreAtStart(o2)
       /\ objs[o1].duration_minutes > objs[o2].duration_minutes

\* C31: the cursor never decreases during a pass; the rigid tasks that
\* are placed are placed in rank order, each at or after the end plus
\* break of every rigid task placed before it and so at a strictly later
\* time; in the returned plan no rigid item is earlier in the day than
\* the item of a rigid task that ranks before it.
C31_CursorMonotone ==
    Planned =>
        LET locals == LoopLocals
            n == Len(SortedRigid(objs, tasks, owner))
            attempts == locals[n].plan
            placed == { i \in 1..Len(attempts) : attempts[i].scheduled_time >= 0 }
        IN /\ \A k \in 1..n : locals[k].current_time >= locals[k - 1].current_time
           /\ \A i, j \in placed :
                 i < j =>
                    /\ RanksNotAfter(attempts[i].task, attempts[j].task)
                    /\ attempts[j].scheduled_time
                         >= ItemEnd(attempts[i]) + break_time_minutes
                    /\ attempts[j].scheduled_time > attempts[i].scheduled_time
           /\ \A i, j \in RigidPlaced :
                 RanksBefore(plan[i].task, plan[j].task)
                    => plan[i].scheduled_time < plan[j].scheduled_time

\* A plan in which a rigid task was placed behind one that ranks before
\* it although its own window and duration would have let it end, break
\* included, before that one starts.
C31_Witness ==
    /\ Planned
    /\ \E i, j \in RigidPlaced :
          /\ RanksBefore(plan[i].task, plan[j].task)
          /\ plan[i].scheduled_time < plan[j].scheduled_time
          /\ Max(objs[plan[j].task].time_window[1], owner[1])
               + plan[j].duration_minutes + break_time_minutes
               <= plan[i].scheduled_time

\* C32: a rigid task whose depends_on names a title that no rigid task of
\* the scheduler carries (flexible tasks only, or no task at all) is not
\* scheduled: its one item has scheduled_time = -1 and the dependency
\* reason, also when the flexible task of that title is gap-filled.
C32_FlexibleDependencyBlocks ==
    Planned =>
        \A k \in 1..Len(tasks) :
            LET task == objs[tasks[k]]
            IN (/\ ~task.is_flexible
                /\ ~Falsy(task.depends_on)
                /\ \A n \in 1..Len(tasks) :
                      objs[tasks[n]].title = task.depends_on => objs[tasks[n]].is_flexible)
               => /\ Cardinality(ItemsOf(tasks[k])) = 1
                  /\ \A i \in ItemsOf(tasks[k]) :
                        /\ plan[i].scheduled_time = Unscheduled
                        /\ plan[i].reason.text = "Waiting for dependency"
                        /\ plan[i].reason.depends_on = task.depends_on

\* A plan in which a flexible task is gap-filled and the rigid task that
\* depends on its title is unscheduled.
C32_Witness ==
    /\ Planned
    /\ \E i, j \in 1..Len(plan) :
          /\ GapFilled(plan[i]) /\ IsScheduled(plan[i])
          /\ ~objs[plan[j].task].is_flexible
          /\ objs[plan[j].task].depends_on = objs[plan[i].task].title
          /\ plan[j].scheduled_time = Unscheduled

\* Other values for the depends_on of a flexible task: unset, empty, the
\* titles of the rigid tasks there are (placed or not) and a title that
\* no task carries.
Dependencies == { NoneStr, "", "H1", "S", "MU", "Q", "Z" }

GapFilledItems == { i \in 1..Len(plan) : GapFilled(plan[i]) /\ IsScheduled(plan[i]) }

\* C34: in a returned plan the gap-filled items are at most one more than
\* the scheduled rigid items; with no rigid item scheduled, at most one
\* flexible task is placed.
C34_OneTaskPerGap ==
    Planned =>
        /\ Cardinality(GapFilledItems) <= Cardinality(RigidPlaced) + 1
        /\ RigidPlaced = {} => Cardinality(GapFilledItems) <= 1

\* A plan without a scheduled rigid item and with one gap-filled item,
\* for a scheduler that holds three flexible tasks, each of which would
\* fit at the start of the availability.
C34_Witness ==
    /\ Planned
    /\ RigidPlaced = {}
    /\ Cardinality(GapFilledItems) = 1
    /\ Len(tasks) = 3
    /\ \A k \in 1..Len(tasks) :
          /\ objs[tasks[k]].is_flexible
          /\ FitsGap(objs[tasks[k]], owner[1], owner[2])

\* The base score of a priority level in units of 1/120, and the level a
\* task has.
BaseScore(priority) ==
    CASE priority = "high" -> 3 * UrgencyHorizon
      [] priority = "medium" -> 2 * UrgencyHorizon
      [] OTHER -> 1 * UrgencyHorizon

\* C35: at every time the score of a task is at least the base score of
\* its priority and less than that base plus 1, the base of the next
\* level; so the loop attempts every high rigid task before every medium
\* one and every medium one before every low one.
C35_BoostBelowOne ==
    Planned =>
        LET attempts == Attempts
        IN /\ \A k \in 1..Len(tasks) :
                 LET task == objs[tasks[k]]
                 IN \A current_time \in
                        (task.time_window[2] - UrgencyHorizon - 1)..(task.time_window[2] + 1) :
                        /\ GetDynamicPriority(task, current_time) >= BaseScore(task.priority)
                        /\ GetDynamicPriority(task, current_time)
                             < BaseScore(task.priority) + UrgencyHorizon
           /\ \A i, j \in 1..Len(attempts) :
                 BaseScore(objs[attempts[i].task].priority)
                   > BaseScore(objs[attempts[j].task].priority) => i < j

\* A plan for which a medium task with nearly the whole boost at the
\* availability start, and the longer duration, was attempted after a
\* high task that has no boost.
C35_Witness ==
    /\ Planned
    /\ \E i, j \in 1..Len(Attempts) :
          /\ i < j
          /\ objs[Attempts[i].task].priority = "high"
          /\ ScoreAtStart(Attempts[i].task) = BaseScore("high")
          /\ objs[Attempts[j].task].priority = "medium"
          /\ ScoreAtStart(Attempts[j].task) = BaseScore("medium") + UrgencyHorizon - 1
          /\ objs[Attempts[j].task].duration_minutes > objs[Attempts[i].task].duration_minutes

\* C11: validate() returns true exactly when the title is non-empty,
\* 1 <= duration_minutes <= 1440, the priority is low, medium or high,
\* time_window[0] < time_window[1], and start_time is absent or satisfies
\* 0 <= start_time < 1440; the call changes no field of the task.
C11_Validate ==
    [][ op' = "validate" =>
          /\ objs' = objs
          /\ (ret' = 1) <=>
                LET t == objs[arg']
                IN /\ t.title # ""
                   /\ t.duration_minutes \in 1..1440
                   /\ t.priority \in {"low", "medium", "high"}
                   /\ t.time_window[1] < t.time_window[2]
                   /\ (t.start_time = None \/ t.start_time \in 0..1439)
          /\ ret' \in {0, 1} ]_vars

\* validate() has accepted a task whose start_time is the last minute of
\* the day and whose duration is the longest allowed.
C11_Witness ==
    /\ op = "validate" /\ ret = 1
    /\ objs[arg].start_time = 1439
    /\ objs[arg].duration_minutes = 1440
    /\ objs[arg].time_window = <<599, 600>>

\* C20: the score of a task at current_time, in units of 1/120, is
\* 120 * base (high 3, medium 2, low 1) plus 120 - d exactly when the
\* deadline distance d = time_window[1] - current_time is in 1..119, and
\* 120 * base alone when d <= 0 or d >= 120.
C20_Score ==
    (op = "_get_dynamic_priority" /\ objs[1].priority \in {"low", "medium", "high"}) =>
        LET base == CASE objs[1].priority = "high" -> 3
                      [] objs[1].priority = "medium" -> 2
                      [] objs[1].priority = "low" -> 1
            d == objs[1].time_window[2] - arg
        IN /\ (1 <= d /\ d <= 119) => ret = 120 * base + 120 - d
           /\ (d <= 0 \/ d >= 120) => ret = 120 * base

\* A medium task was scored one minute before its deadline: 2 + 119/120.
C20_Witness ==
    /\ op = "_get_dynamic_priority"
    /\ objs[1].priority = "medium"
    /\ objs[1].time_window[2] - arg = 1
    /\ ret = 359

====
